---- MODULE Spec2Model ----
(***************************************************************************)
(* Classification recording and risk aggregation of the home-inspection    *)
(* workspace: src/src/ai_classification.py and src/src/risk_scoring.py,    *)
(* over the relational store whose statement semantics are those of the    *)
(* in-memory store of src/tests/conftest.py (every statement takes effect  *)
(* when it is executed, commit is a no-op, there is no rollback).          *)
(* SpecCommits and SpecReclassify take the calls apart at their commits    *)
(* and interleave them with the statements of another connection (the      *)
(* reader of src/src/dashboard_data.py, a second reclassification).        *)
(*                                                                         *)
(* A confidence score is kept as an integer number of hundredths           *)
(* (0.85 is 85).  A nullable column holds <<>> for NULL and <<v>> for v.   *)
(* error_log is append-only and no call reads it: of its rows the model    *)
(* keeps those that the last call appended.                                *)
(***************************************************************************)
EXTENDS Integers, Sequences, FiniteSets, TLC

VARIABLES
    defect_tags,             \* finding_id -> rows of defect_tags, in insertion order
    classification_history,  \* finding_id -> rows of classification_history
    error_log,               \* the rows the last call appended to error_log
    processing_status,       \* finding_id -> findings.processing_status
    room_risk_score,         \* room_id -> rooms.risk_score (nullable)
    property_risk,           \* property_id -> properties.(risk_score, risk_category)
    summary_text,            \* property_id -> properties.summary_text (nullable)
    last,                    \* the call that was made last, with what it returned
    calls,                   \* the number of calls made
    in_progress,             \* the classification that is between two of its commits
    reclassifying            \* connection -> the reclassification it is making

vars == <<defect_tags, classification_history, error_log, processing_status,
          room_risk_score, property_risk, summary_text, last, calls, in_progress,
          reclassifying>>

(***************************************************************************)
(* Bounds of the model.                                                    *)
(***************************************************************************)
\* The calls made in a behaviour of Spec, of SpecRisk and of SpecCore.
MaxCalls == 3
MaxRiskCalls == 4
MaxCoreCalls == 2
\* The calls that change the store in a behaviour of SpecPure.
MaxPureCalls == 2
\* categorize_risk is applied to the scores -MaxScore .. MaxScore.
MaxScore == 60
\* The commits and reads made in a behaviour of SpecCommits.
MaxCommits == 6
\* The commits made in a behaviour of SpecReclassify.
MaxReclassifyCommits == 6
\* The calls made in a behaviour of SpecFallback.
MaxFallbackCalls == 2

(***************************************************************************)
(* The taxonomy and the severity table.                                    *)
(***************************************************************************)
TEXT_DEFECT_CATEGORIES ==
    {"damp wall", "exposed wiring", "crack", "mold", "water leak", "none"}

IMAGE_DEFECT_CATEGORIES ==
    {"crack", "water leak", "mold", "electrical wiring", "none"}

SEVERITY_WEIGHTS ==
    [c \in {"exposed wiring", "electrical wiring", "damp wall", "mold",
            "water leak", "crack", "none"} |->
        CASE c = "exposed wiring"    -> 3
          [] c = "electrical wiring" -> 3
          [] c = "damp wall"         -> 3
          [] c = "mold"              -> 3
          [] c = "water leak"        -> 2
          [] c = "crack"             -> 2
          [] c = "none"              -> 0]

WeightOrOne(defect_category) ==
    IF defect_category \in DOMAIN SEVERITY_WEIGHTS
    THEN SEVERITY_WEIGHTS[defect_category] ELSE 1

\* self.severity_weights.get(defect_category, 0)
get_severity_weight(defect_category) ==
    IF defect_category \in DOMAIN SEVERITY_WEIGHTS
    THEN SEVERITY_WEIGHTS[defect_category] ELSE 0

CategorizeInclusive(risk_score) ==
    IF risk_score <= 5 THEN "Low"
    ELSE IF risk_score <= 10 THEN "Medium"
    ELSE "High"

categorize_risk(risk_score) ==
    IF risk_score < 5 THEN "Low"
    ELSE IF risk_score < 10 THEN "Medium"
    ELSE "High"

(***************************************************************************)
(* The rows that ingestion has created: two rooms of property p1, a        *)
(* property p2 without rooms, and three findings.                          *)
(***************************************************************************)
Properties == {"p1", "p2"}
Rooms == {"r1", "r2"}
Findings == {"f1", "f2", "f3", "f4"}

\* rooms.property_id
RoomProperty == [r \in Rooms |-> "p1"]

\* SELECT ... FROM rooms WHERE property_id = p
RoomsOf(p) == IF p = "p1" THEN <<"r1", "r2">> ELSE <<>>

\* findings.room_id
FindingRoom == [f \in Findings |-> IF f \in {"f3", "f4"} THEN "r2" ELSE "r1"]

\* findings.finding_type
FindingType == [f \in Findings |-> IF f = "f2" THEN "image" ELSE "text"]

FindingOrder == <<"f1", "f2", "f3", "f4">>

\* The connections that reclassify at the same time.
Connections == {"a", "b"}

(***************************************************************************)
(* The store as one value, and what a call hands back.                     *)
(***************************************************************************)
DB == [defect_tags            |-> defect_tags,
       classification_history |-> classification_history,
       error_log              |-> <<>>,
       processing_status      |-> processing_status,
       room_risk_score        |-> room_risk_score,
       property_risk          |-> property_risk,
       summary_text           |-> summary_text]

StatementKinds ==
    {"insert_tag", "insert_history", "insert_log", "update_processed",
     "update_failed", "delete_tags", "update_room", "update_property",
     "update_summary"}

\* The exception a failing statement raises: a ValueError when the set of
\* failing statements is marked so, any other Exception otherwise.
Raise(faults) == IF "ValueError" \in faults THEN "ValueError" ELSE "Exception"

RECURSIVE SumWeights(_)
SumWeights(rows) ==
    IF rows = <<>> THEN 0
    ELSE Head(rows).severity_weight + SumWeights(Tail(rows))

(***************************************************************************)
(* AIClassification._store_classification_result                           *)
(***************************************************************************)
StoreReplaceTag(db, finding_id, defect_category, confidence_score, classification_method, faults) ==
    LET tag == [defect_category |-> defect_category,
                confidence_score |-> confidence_score,
                severity_weight |-> get_severity_weight(defect_category)]
        h == [defect_category |-> defect_category,
              confidence_score |-> confidence_score,
              classification_method |-> classification_method]
        d1 == [db EXCEPT !.defect_tags[finding_id] = <<tag>>]
        d2 == [d1 EXCEPT !.classification_history[finding_id] = Append(@, h)]
    IN  IF "insert_tag" \in faults THEN [db |-> db, raised |-> Raise(faults)]
        ELSE IF "insert_history" \in faults THEN [db |-> d1, raised |-> Raise(faults)]
        ELSE [db |-> d2, raised |-> "none"]

StoreResettingRoomScore(db, finding_id, defect_category, confidence_score, classification_method, faults) ==
    LET tag == [defect_category |-> defect_category,
                confidence_score |-> confidence_score,
                severity_weight |-> get_severity_weight(defect_category)]
        h == [defect_category |-> defect_category,
              confidence_score |-> confidence_score,
              classification_method |-> classification_method]
        d1 == [db EXCEPT !.defect_tags[finding_id] = Append(@, tag)]
        d2 == [d1 EXCEPT !.classification_history[finding_id] = Append(@, h),
                         !.room_risk_score[FindingRoom[finding_id]] = <<>>]
    IN  IF "insert_tag" \in faults THEN [db |-> db, raised |-> Raise(faults)]
        ELSE IF "insert_history" \in faults THEN [db |-> d1, raised |-> Raise(faults)]
        ELSE [db |-> d2, raised |-> "none"]

_store_classification_result(db, finding_id, defect_category, confidence_score, classification_method, faults) ==
    LET severity_weight == IF defect_category \in DOMAIN SEVERITY_WEIGHTS
                           THEN SEVERITY_WEIGHTS[defect_category] ELSE 0
        tag == [defect_category |-> defect_category,
                confidence_score |-> confidence_score,
                severity_weight |-> severity_weight]
        h == [defect_category |-> defect_category,
              confidence_score |-> confidence_score,
              classification_method |-> classification_method]
        d1 == [db EXCEPT !.defect_tags[finding_id] = Append(@, tag)]
        d2 == [d1 EXCEPT !.classification_history[finding_id] = Append(@, h)]
    IN  IF "insert_tag" \in faults THEN [db |-> db, raised |-> Raise(faults)]
        ELSE IF "insert_history" \in faults THEN [db |-> d1, raised |-> Raise(faults)]
        ELSE [db |-> d2, raised |-> "none"]

(***************************************************************************)
(* Reclassification, as TestClassificationHistoryPreservation does it:     *)
(* DELETE FROM defect_tags WHERE finding_id = f, then one                  *)
(* _store_classification_result per new tag (method 'manual', 0.95).       *)
(***************************************************************************)
RECURSIVE StoreEach(_, _, _, _, _, _)
StoreEach(db, finding_id, categories, confidence_score, method, faults) ==
    IF categories = <<>> THEN [db |-> db, raised |-> "none"]
    ELSE LET r == _store_classification_result(db, finding_id, Head(categories),
                                               confidence_score, method, faults)
         IN  IF r.raised # "none" THEN r
             ELSE StoreEach(r.db, finding_id, Tail(categories),
                            confidence_score, method, faults)

\* deleted: the DELETE has been executed.
reclassify(db, finding_id, new_categories, faults) ==
    IF "delete_tags" \in faults
    THEN [db |-> db, raised |-> Raise(faults), deleted |-> FALSE]
    ELSE LET s == StoreEach([db EXCEPT !.defect_tags[finding_id] = <<>>],
                            finding_id, new_categories, 95, "manual", faults)
         IN  [db |-> s.db, raised |-> s.raised, deleted |-> TRUE]

(***************************************************************************)
(* RiskScoring                                                             *)
(***************************************************************************)
\* SELECT dt.* FROM defect_tags dt JOIN findings f ... WHERE f.room_id = r
RECURSIVE TagsOfFindings(_, _, _)
TagsOfFindings(db, room_id, ids) ==
    IF ids = <<>> THEN <<>>
    ELSE (IF FindingRoom[Head(ids)] = room_id
          THEN db.defect_tags[Head(ids)] ELSE <<>>)
         \o TagsOfFindings(db, room_id, Tail(ids))

RoomTags(db, room_id) == TagsOfFindings(db, room_id, FindingOrder)

DefectDetails(rows) ==
    [i \in 1..Len(rows) |-> [defect_category |-> rows[i].defect_category,
                             severity_weight |-> rows[i].severity_weight]]

RoomRiskCounting(db, room_id, faults) ==
    LET rows == RoomTags(db, room_id)
    IN  IF "update_room" \in faults
        THEN [db |-> db, raised |-> "Exception", risk_score |-> 0,
              defect_details |-> <<>>]
        ELSE [db |-> [db EXCEPT !.room_risk_score[room_id] = <<Len(rows)>>],
              raised |-> "none", risk_score |-> Len(rows),
              defect_details |-> DefectDetails(rows)]

RoomRiskAccumulating(db, room_id, faults) ==
    LET rows == RoomTags(db, room_id)
        risk_score == SumWeights(rows) +
                      (IF db.room_risk_score[room_id] = <<>> THEN 0
                       ELSE db.room_risk_score[room_id][1])
    IN  IF "update_room" \in faults
        THEN [db |-> db, raised |-> "Exception", risk_score |-> 0,
              defect_details |-> <<>>]
        ELSE [db |-> [db EXCEPT !.room_risk_score[room_id] = <<risk_score>>],
              raised |-> "none", risk_score |-> risk_score,
              defect_details |-> DefectDetails(rows)]

compute_room_risk(db, room_id, faults) ==
    LET rows == RoomTags(db, room_id)
        risk_score == SumWeights(rows)
    IN  IF "update_room" \in faults
        THEN [db |-> db, raised |-> "Exception", risk_score |-> 0,
              defect_details |-> <<>>]
        ELSE [db |-> [db EXCEPT !.room_risk_score[room_id] = <<risk_score>>],
              raised |-> "none", risk_score |-> risk_score,
              defect_details |-> DefectDetails(rows)]

\* The loop over the rooms of compute_property_risk: rows are the
\* (room_id, risk_score) pairs that were selected before the loop.
RECURSIVE SumRooms(_, _, _, _)
SumRooms(db, rows, stored, faults) ==
    IF rows = <<>>
    THEN [db |-> db, raised |-> "none", total |-> 0, computed |-> {}]
    ELSE LET room_id == Head(rows)
             r == IF stored[room_id] = <<>>
                  THEN compute_room_risk(db, room_id, faults)
                  ELSE [db |-> db, raised |-> "none",
                        risk_score |-> stored[room_id][1]]
         IN  IF r.raised # "none"
             THEN [db |-> r.db, raised |-> r.raised, total |-> 0,
                   computed |-> {}]
             ELSE LET rest == SumRooms(r.db, Tail(rows), stored, faults)
                  IN  [db |-> rest.db, raised |-> rest.raised,
                       total |-> r.risk_score + rest.total,
                       computed |-> rest.computed \cup
                           (IF stored[room_id] = <<>> THEN {room_id} ELSE {})]

compute_property_risk(db, property_id, faults) ==
    LET s == SumRooms(db, RoomsOf(property_id), db.room_risk_score, faults)
        risk_category == categorize_risk(s.total)
    IN  IF s.raised # "none"
        THEN [db |-> s.db, raised |-> s.raised, risk_score |-> 0,
              risk_category |-> "", computed |-> s.computed]
        ELSE IF "update_property" \in faults
        THEN [db |-> s.db, raised |-> "Exception", risk_score |-> 0,
              risk_category |-> "", computed |-> s.computed]
        ELSE [db |-> [s.db EXCEPT !.property_risk[property_id] =
                          [risk_score |-> <<s.total>>,
                           risk_category |-> <<risk_category>>]],
              raised |-> "none", risk_score |-> s.total,
              risk_category |-> risk_category, computed |-> s.computed]

get_risk_calculation_details(db, property_id) ==
    [property_id |-> property_id,
     property_risk_score |-> db.property_risk[property_id].risk_score,
     risk_category |-> db.property_risk[property_id].risk_category,
     rooms |-> [i \in 1..Len(RoomsOf(property_id)) |->
                  [room_id |-> RoomsOf(property_id)[i],
                   room_risk_score |-> db.room_risk_score[RoomsOf(property_id)[i]],
                   defects |-> DefectDetails(RoomTags(db, RoomsOf(property_id)[i]))]]]

(***************************************************************************)
(* AIClassification._log_error                                             *)
(***************************************************************************)
_log_error(db, error_type, entity_type, entity_id, faults) ==
    IF "insert_log" \in faults THEN [db |-> db, raised |-> Raise(faults)]
    ELSE [db |-> [db EXCEPT !.error_log =
                      Append(@, [error_type |-> error_type,
                                 entity_type |-> entity_type,
                                 entity_id |-> entity_id])],
          raised |-> "none"]

\* UPDATE findings SET processing_status = status WHERE finding_id = f
update_status(db, finding_id, status, faults) ==
    IF ("update_" \o status) \in faults THEN [db |-> db, raised |-> Raise(faults)]
    ELSE [db |-> IF finding_id \in DOMAIN db.processing_status
                 THEN [db EXCEPT !.processing_status[finding_id] = status]
                 ELSE db,
          raised |-> "none"]

(***************************************************************************)
(* A text is kept as the set of the keywords of the fallback classifiers   *)
(* and of the path check that occur in its lower-cased form, whether       *)
(* strip() leaves nothing of it, and whether it is falsy (None or '').     *)
(***************************************************************************)
Text(contains) == [falsy |-> FALSE, empty |-> FALSE, contains |-> contains]
\* a string of white space only
Blank == [falsy |-> FALSE, empty |-> TRUE, contains |-> {}]
\* None or the empty string
NoText == [falsy |-> TRUE, empty |-> TRUE, contains |-> {}]

ContainsAny(text, words) == text.contains \cap words # {}

FallbackNone(note_text) == "none"

FallbackMoldBeforeDamp(note_text) ==
    IF ContainsAny(note_text, {"exposed wire", "exposed wiring", "live wire", "electrical hazard"})
    THEN "exposed wiring"
    ELSE IF ContainsAny(note_text, {"mold", "mould", "fungus", "mildew"})
    THEN "mold"
    ELSE IF ContainsAny(note_text, {"damp", "wet wall", "moisture", "humid"})
    THEN "damp wall"
    ELSE IF ContainsAny(note_text, {"leak", "leaking", "water damage", "drip"})
    THEN "water leak"
    ELSE IF ContainsAny(note_text, {"crack", "fissure", "split", "fracture"})
    THEN "crack"
    ELSE "none"

_fallback_text_classification(note_text) ==
    IF ContainsAny(note_text, {"exposed wire", "exposed wiring", "live wire", "electrical hazard"})
    THEN "exposed wiring"
    ELSE IF ContainsAny(note_text, {"damp", "wet wall", "moisture", "humid"})
    THEN "damp wall"
    ELSE IF ContainsAny(note_text, {"mold", "mould", "fungus", "mildew"})
    THEN "mold"
    ELSE IF ContainsAny(note_text, {"leak", "leaking", "water damage", "drip"})
    THEN "water leak"
    ELSE IF ContainsAny(note_text, {"crack", "fissure", "split", "fracture"})
    THEN "crack"
    ELSE "none"

_fallback_image_classification(image_stage_path) ==
    LET tags ==
            (IF ContainsAny(image_stage_path, {"crack", "fissure"}) THEN <<"crack">> ELSE <<>>)
         \o (IF ContainsAny(image_stage_path, {"leak", "water"}) THEN <<"water leak">> ELSE <<>>)
         \o (IF ContainsAny(image_stage_path, {"mold", "mould"}) THEN <<"mold">> ELSE <<>>)
         \o (IF ContainsAny(image_stage_path, {"wire", "wiring", "electrical"})
             THEN <<"electrical wiring">> ELSE <<>>)
    IN  IF tags = <<>> THEN <<"none">> ELSE tags

(***************************************************************************)
(* The answer of the Cortex call: a label (or, for an image, a list of     *)
(* labels), nothing, or an exception with its message.                     *)
(***************************************************************************)
Label(l) == [kind |-> "label", labels |-> <<l>>, asset |-> FALSE]
Labels(ls) == [kind |-> "list", labels |-> ls, asset |-> FALSE]
Nothing == [kind |-> "empty", labels |-> <<>>, asset |-> FALSE]
\* asset: the message holds 'file not found', 'cannot access' or 'corrupted'
Error(asset) == [kind |-> "error", labels |-> <<>>, asset |-> asset]

(***************************************************************************)
(* AIClassification.classify_text_finding                                  *)
(***************************************************************************)
\* The clause 'except Exception' of classify_text_finding and of
\* classify_image_finding: the exception is one that a statement of faults
\* has raised, and it is raised again after the log and the status update.
classification_failure(db, finding_id, faults) ==
    LET l == _log_error(db, "classification_failure", "finding", finding_id, faults)
    IN  IF l.raised # "none" THEN [db |-> l.db, raised |-> l.raised, tags |-> <<>>]
        ELSE [db |-> update_status(l.db, finding_id, "failed", faults).db,
              raised |-> Raise(faults), tags |-> <<>>]

\* The inner try: the Cortex call and its fallbacks.
text_label(db, finding_id, note_text, cortex, faults) ==
    CASE cortex.kind = "label" ->
            [db |-> db, raised |-> "none", defect_tag |-> cortex.labels[1],
             confidence_score |-> 85]
      [] cortex.kind = "list" /\ cortex.labels # <<>> ->
            \* a list is no member of TEXT_DEFECT_CATEGORIES
            [db |-> db, raised |-> "none", defect_tag |-> "[list]",
             confidence_score |-> 85]
      [] cortex.kind = "empty" \/ (cortex.kind = "list" /\ cortex.labels = <<>>) ->
            [db |-> db, raised |-> "none",
             defect_tag |-> _fallback_text_classification(note_text),
             confidence_score |-> 50]
      [] cortex.kind = "error" ->
            LET l == _log_error(db, "classification_error", "finding", finding_id, faults)
            IN  [db |-> l.db, raised |-> l.raised,
                 defect_tag |-> _fallback_text_classification(note_text),
                 confidence_score |-> 50]

\* Validation of the category, the store and the status update.
TextRecordKeepsConfidence(db, finding_id, a, faults) ==
    LET valid == a.defect_tag \in TEXT_DEFECT_CATEGORIES
        l == IF valid THEN [db |-> db, raised |-> "none"]
             ELSE _log_error(db, "invalid_category", "finding", finding_id, faults)
        defect_tag == IF valid THEN a.defect_tag ELSE "none"
        s == _store_classification_result(l.db, finding_id, defect_tag, a.confidence_score, "text_ai", faults)
        u == update_status(s.db, finding_id, "processed", faults)
    IN  IF l.raised # "none" THEN classification_failure(l.db, finding_id, faults)
        ELSE IF s.raised # "none" THEN classification_failure(s.db, finding_id, faults)
        ELSE IF u.raised # "none" THEN classification_failure(u.db, finding_id, faults)
        ELSE [db |-> u.db, raised |-> "none", tags |-> <<defect_tag>>]

text_record(db, finding_id, a, faults) ==
    LET valid == a.defect_tag \in TEXT_DEFECT_CATEGORIES
        l == IF valid THEN [db |-> db, raised |-> "none"]
             ELSE _log_error(db, "invalid_category", "finding", finding_id, faults)
        defect_tag == IF valid THEN a.defect_tag ELSE "none"
        confidence_score == IF valid THEN a.confidence_score ELSE 0
        s == _store_classification_result(l.db, finding_id, defect_tag, confidence_score, "text_ai", faults)
        u == update_status(s.db, finding_id, "processed", faults)
    IN  IF l.raised # "none" THEN classification_failure(l.db, finding_id, faults)
        ELSE IF s.raised # "none" THEN classification_failure(s.db, finding_id, faults)
        ELSE IF u.raised # "none" THEN classification_failure(u.db, finding_id, faults)
        ELSE [db |-> u.db, raised |-> "none", tags |-> <<defect_tag>>]

ClassifyTextNoStrip(db, finding_id, note_text, cortex, faults) ==
    IF finding_id = "" \/ note_text.falsy
    THEN [db |-> db, raised |-> "ValueError", tags |-> <<>>]
    ELSE LET a == text_label(db, finding_id, note_text, cortex, faults)
         IN  IF a.raised # "none" THEN classification_failure(a.db, finding_id, faults)
             ELSE text_record(a.db, finding_id, a, faults)

classify_text_finding(db, finding_id, note_text, cortex, faults) ==
    IF finding_id = "" \/ note_text.empty
    THEN [db |-> db, raised |-> "ValueError", tags |-> <<>>]
    ELSE LET a == text_label(db, finding_id, note_text, cortex, faults)
         IN  IF a.raised # "none" THEN classification_failure(a.db, finding_id, faults)
             ELSE text_record(a.db, finding_id, a, faults)

(***************************************************************************)
(* AIClassification.classify_image_finding                                 *)
(***************************************************************************)
AccessErrorKeepsStatus(db, finding_id, faults) ==
    [db |-> _log_error(db, "image_access_error", "finding", finding_id, faults).db,
     raised |-> "ValueError", tags |-> <<>>]

\* Log 'image_access_error', mark the finding failed, raise ValueError.
image_access_error(db, finding_id, faults) ==
    LET l == _log_error(db, "image_access_error", "finding", finding_id, faults)
        u == update_status(l.db, finding_id, "failed", faults)
    IN  IF l.raised # "none" THEN [db |-> l.db, raised |-> l.raised, tags |-> <<>>]
        ELSE IF u.raised # "none" THEN [db |-> u.db, raised |-> u.raised, tags |-> <<>>]
        ELSE [db |-> u.db, raised |-> "ValueError", tags |-> <<>>]

\* The inner try: the Cortex call and its fallbacks.
image_labels(db, finding_id, image_stage_path, cortex, faults) ==
    CASE cortex.kind \in {"label", "list"} /\ cortex.labels # <<>> ->
            [db |-> db, raised |-> "none", defect_tags |-> cortex.labels,
             confidence_score |-> 85]
      [] cortex.kind = "empty" \/ (cortex.kind = "list" /\ cortex.labels = <<>>) ->
            [db |-> db, raised |-> "none",
             defect_tags |-> _fallback_image_classification(image_stage_path),
             confidence_score |-> 50]
      [] cortex.kind = "error" /\ cortex.asset ->
            LET e == image_access_error(db, finding_id, faults)
            IN  [db |-> e.db, raised |-> e.raised, defect_tags |-> <<>>,
                 confidence_score |-> 0]
      [] cortex.kind = "error" /\ ~cortex.asset ->
            LET l == _log_error(db, "classification_error", "finding", finding_id, faults)
            IN  [db |-> l.db, raised |-> l.raised,
                 defect_tags |-> _fallback_image_classification(image_stage_path),
                 confidence_score |-> 50]

\* The clauses 'except ValueError: raise' and 'except Exception' of
\* classify_image_finding.
image_failure(db, finding_id, raised, faults) ==
    IF raised = "ValueError" THEN [db |-> db, raised |-> "ValueError", tags |-> <<>>]
    ELSE classification_failure(db, finding_id, faults)

KeepAllTags(db, finding_id, labels, faults) ==
    [db |-> db, raised |-> "none", validated_tags |-> labels]

\* The validation loop: one 'invalid_category' row per label that is dropped.
RECURSIVE validate_tags(_, _, _, _)
validate_tags(db, finding_id, labels, faults) ==
    IF labels = <<>> THEN [db |-> db, raised |-> "none", validated_tags |-> <<>>]
    ELSE IF Head(labels) \in IMAGE_DEFECT_CATEGORIES
    THEN LET rest == validate_tags(db, finding_id, Tail(labels), faults)
         IN  [rest EXCEPT !.validated_tags = <<Head(labels)>> \o @]
    ELSE LET l == _log_error(db, "invalid_category", "finding", finding_id, faults)
         IN  IF l.raised # "none"
             THEN [db |-> l.db, raised |-> l.raised, validated_tags |-> <<>>]
             ELSE validate_tags(l.db, finding_id, Tail(labels), faults)

image_record(db, finding_id, a, faults) ==
    LET v == validate_tags(db, finding_id, a.defect_tags, faults)
        none == v.validated_tags = <<>>
        validated_tags == IF none THEN <<"none">> ELSE v.validated_tags
        confidence_score == IF none THEN 0 ELSE a.confidence_score
        s == StoreEach(v.db, finding_id, validated_tags, confidence_score, "image_ai", faults)
        u == update_status(s.db, finding_id, "processed", faults)
    IN  IF v.raised # "none" THEN image_failure(v.db, finding_id, v.raised, faults)
        ELSE IF s.raised # "none" THEN image_failure(s.db, finding_id, s.raised, faults)
        ELSE IF u.raised # "none" THEN image_failure(u.db, finding_id, u.raised, faults)
        ELSE [db |-> u.db, raised |-> "none", tags |-> validated_tags]

classify_image_finding(db, finding_id, image_stage_path, cortex, faults) ==
    IF finding_id = "" \/ image_stage_path.empty
    THEN [db |-> db, raised |-> "ValueError", tags |-> <<>>]
    ELSE IF ContainsAny(image_stage_path, {"missing", "nonexistent", "notfound", "corrupted"})
    THEN image_access_error(db, finding_id, faults)
    ELSE LET a == image_labels(db, finding_id, image_stage_path, cortex, faults)
         IN  IF a.raised # "none" THEN image_failure(a.db, finding_id, a.raised, faults)
             ELSE image_record(a.db, finding_id, a, faults)

(***************************************************************************)
(* The content of the findings rows (note_text, image_stage_path).         *)
(***************************************************************************)
FindingRow ==
    [f \in Findings |->
        CASE f = "f1" -> [finding_type |-> "text", note_text |-> Text({"damp", "mold"}),
                          image_stage_path |-> NoText]
          [] f = "f2" -> [finding_type |-> "image", note_text |-> NoText,
                          image_stage_path |-> Text({"leak", "wire"})]
          [] f = "f3" -> [finding_type |-> "text", note_text |-> Text({"crack"}),
                          image_stage_path |-> NoText]
          \* a note that was ingested as the empty string
          [] f = "f4" -> [finding_type |-> "text", note_text |-> NoText,
                          image_stage_path |-> NoText]]

(***************************************************************************)
(* AIClassification.batch_classify_findings: an item is a finding id with  *)
(* the answer of the Cortex call made for it and the statements that fail  *)
(* while it is processed.                                                  *)
(***************************************************************************)
Item(finding_id, cortex, faults) ==
    [finding_id |-> finding_id, cortex |-> cortex, faults |-> faults]

\* The body of the try of one item.
batch_dispatch(db, row, finding_id, cortex, faults) ==
    IF row.finding_type = "text" /\ ~row.note_text.falsy
    THEN classify_text_finding(db, finding_id, row.note_text, cortex, faults)
    ELSE IF row.finding_type = "image" /\ ~row.image_stage_path.falsy
    THEN classify_image_finding(db, finding_id, row.image_stage_path, cortex, faults)
    ELSE [db |-> db, raised |-> "skipped", tags |-> <<>>]

RECURSIVE BatchLoopLastFirst(_, _, _)
BatchLoopLastFirst(db, items, results) ==
    IF items = <<>> THEN [db |-> db, raised |-> "none", results |-> results]
    ELSE LET item == items[Len(items)]
             rest == SubSeq(items, 1, Len(items) - 1)
             finding_id == item.finding_id
             faults == item.faults
         IN  IF finding_id \notin Findings
             THEN LET l == _log_error(db, "finding_not_found", "finding", finding_id, faults)
                  IN  IF l.raised # "none"
                      THEN [db |-> l.db, raised |-> l.raised, results |-> results]
                      ELSE BatchLoopLastFirst(l.db, rest, results)
             ELSE LET c == batch_dispatch(db, FindingRow[finding_id], finding_id,
                                          item.cortex, faults)
                      l == _log_error(c.db, "batch_classification_error", "finding", finding_id, faults)
                  IN  IF c.raised = "none"
                      THEN BatchLoopLastFirst(c.db, rest, (finding_id :> c.tags) @@ results)
                      ELSE IF c.raised = "skipped"
                      THEN BatchLoopLastFirst(c.db, rest, results)
                      ELSE IF l.raised # "none"
                      THEN [db |-> l.db, raised |-> l.raised, results |-> results]
                      ELSE BatchLoopLastFirst(l.db, rest, results)

RECURSIVE batch_loop(_, _, _)
batch_loop(db, items, results) ==
    IF items = <<>> THEN [db |-> db, raised |-> "none", results |-> results]
    ELSE LET finding_id == Head(items).finding_id
             faults == Head(items).faults
         IN  IF finding_id \notin Findings
             THEN LET l == _log_error(db, "finding_not_found", "finding", finding_id, faults)
                  IN  IF l.raised # "none"
                      THEN [db |-> l.db, raised |-> l.raised, results |-> results]
                      ELSE batch_loop(l.db, Tail(items), results)
             ELSE LET c == batch_dispatch(db, FindingRow[finding_id], finding_id,
                                          Head(items).cortex, faults)
                      l == _log_error(c.db, "batch_classification_error", "finding", finding_id, faults)
                  IN  IF c.raised = "none"
                      THEN batch_loop(c.db, Tail(items), (finding_id :> c.tags) @@ results)
                      ELSE IF c.raised = "skipped"
                      THEN batch_loop(c.db, Tail(items), results)
                      ELSE IF l.raised # "none"
                      THEN [db |-> l.db, raised |-> l.raised, results |-> results]
                      ELSE batch_loop(l.db, Tail(items), results)

batch_classify_findings(db, items) == batch_loop(db, items, <<>>)

\* SELECT ... FROM defect_tags WHERE finding_id = f
get_defect_tags(db, finding_id) == db.defect_tags[finding_id]

(***************************************************************************)
(* SummaryGeneration.generate_property_summary.  The summary is kept as    *)
(* where its text came from and what it says of the risk and the defects.  *)
(***************************************************************************)
RECURSIVE CountDefects(_, _)
CountDefects(db, rooms) ==
    IF rooms = <<>> THEN 0
    ELSE Cardinality({i \in 1..Len(RoomTags(db, Head(rooms))) :
                         RoomTags(db, Head(rooms))[i].defect_category # "none"})
         + CountDefects(db, Tail(rooms))

generate_property_summary(db, property_id, cortex, faults) ==
    LET risk == db.property_risk[property_id]
        risk_score == IF risk.risk_score = <<>> THEN 0 ELSE risk.risk_score[1]
        risk_category == IF risk.risk_category = <<>> THEN "Low" ELSE risk.risk_category[1]
        no_defects == CountDefects(db, RoomsOf(property_id)) = 0
        structured_text == [source |-> "structured",
                            no_defects |-> no_defects /\ risk_score = 0,
                            risk_category |-> risk_category]
        l == _log_error(db, "summary_generation_error", "property", property_id, faults)
        a == CASE cortex.kind \in {"label", "list"} ->
                    [db |-> db, raised |-> "none",
                     text |-> [structured_text EXCEPT !.source = "cortex"]]
               [] cortex.kind = "empty" ->
                    [db |-> db, raised |-> "none", text |-> structured_text]
               [] cortex.kind = "error" ->
                    [db |-> l.db, raised |-> l.raised,
                     text |-> [source |-> "fallback", no_defects |-> no_defects,
                               risk_category |-> risk_category]]
    IN  IF a.raised # "none" \/ "update_summary" \in faults
        THEN [db |-> a.db, raised |-> "Exception", text |-> a.text]
        ELSE [db |-> [a.db EXCEPT !.summary_text[property_id] = <<a.text>>],
              raised |-> "none", text |-> a.text]

(***************************************************************************)
(* The state after ingestion, and one action per call.                     *)
(***************************************************************************)
Init ==
    /\ defect_tags = [f \in Findings |-> <<>>]
    /\ classification_history = [f \in Findings |-> <<>>]
    /\ error_log = <<>>
    /\ processing_status = [f \in Findings |-> "pending"]
    /\ room_risk_score = [r \in Rooms |-> <<>>]
    /\ property_risk = [p \in Properties |-> [risk_score |-> <<>>, risk_category |-> <<>>]]
    /\ summary_text = [p \in Properties |-> <<>>]
    /\ last = [op |-> "init", raised |-> "none"]
    /\ calls = 0
    /\ in_progress = [op |-> "idle"]
    /\ reclassifying = [c \in Connections |-> [op |-> "idle"]]

\* The store after the statements of a call, or of a part of a call up to
\* one of its commits.
Apply(db) ==
    /\ calls' = calls + 1
    /\ defect_tags' = db.defect_tags
    /\ classification_history' = db.classification_history
    /\ error_log' = db.error_log
    /\ processing_status' = db.processing_status
    /\ room_risk_score' = db.room_risk_score
    /\ property_risk' = db.property_risk
    /\ summary_text' = db.summary_text

\* A call that runs from its first statement to its return with no other
\* connection in between.
Commit(db) ==
    /\ Apply(db)
    /\ UNCHANGED <<in_progress, reclassifying>>

ClassifyText(f, note_text, cortex, faults) ==
    LET r == classify_text_finding(DB, f, note_text, cortex, faults)
    IN  /\ Commit(r.db)
        /\ last' = [op |-> "classify_text_finding", finding_id |-> f,
                    raised |-> r.raised, tags |-> r.tags]

ClassifyImage(f, image_stage_path, cortex, faults) ==
    LET r == classify_image_finding(DB, f, image_stage_path, cortex, faults)
    IN  /\ Commit(r.db)
        /\ last' = [op |-> "classify_image_finding", finding_id |-> f,
                    raised |-> r.raised, tags |-> r.tags]

Store(f, c, confidence_score, method, faults) ==
    LET r == _store_classification_result(DB, f, c, confidence_score, method, faults)
    IN  /\ Commit(r.db)
        /\ last' = [op |-> "_store_classification_result", finding_id |-> f,
                    raised |-> r.raised, defect_category |-> c,
                    confidence_score |-> confidence_score,
                    classification_method |-> method]

Reclassify(f, new_categories, faults) ==
    LET r == reclassify(DB, f, new_categories, faults)
    IN  /\ Commit(r.db)
        /\ last' = [op |-> "reclassify", finding_id |-> f, raised |-> r.raised,
                    new_categories |-> new_categories, deleted |-> r.deleted]

BatchClassify(items) ==
    LET r == batch_classify_findings(DB, items)
    IN  /\ Commit(r.db)
        /\ last' = [op |-> "batch_classify_findings", raised |-> r.raised,
                    finding_ids |-> [i \in 1..Len(items) |-> items[i].finding_id],
                    results |-> r.results]

GetDefectTags(f) ==
    /\ Commit(DB)
    /\ last' = [op |-> "get_defect_tags", finding_id |-> f, raised |-> "none",
                rows |-> get_defect_tags(DB, f)]

ComputeRoomRisk(room_id, faults) ==
    LET r == compute_room_risk(DB, room_id, faults)
    IN  /\ Commit(r.db)
        /\ last' = [op |-> "compute_room_risk", room_id |-> room_id,
                    raised |-> r.raised, risk_score |-> r.risk_score,
                    defect_details |-> r.defect_details]

ComputePropertyRisk(property_id, faults) ==
    LET r == compute_property_risk(DB, property_id, faults)
    IN  /\ Commit(r.db)
        /\ last' = [op |-> "compute_property_risk", property_id |-> property_id,
                    raised |-> r.raised, risk_score |-> r.risk_score,
                    risk_category |-> r.risk_category, computed |-> r.computed]

GetRiskCalculationDetails(property_id) ==
    /\ Commit(DB)
    /\ last' = [op |-> "get_risk_calculation_details", property_id |-> property_id,
                raised |-> "none",
                details |-> get_risk_calculation_details(DB, property_id)]

GenerateSummary(property_id, cortex, faults) ==
    LET r == generate_property_summary(DB, property_id, cortex, faults)
    IN  /\ Commit(r.db)
        /\ last' = [op |-> "generate_property_summary", property_id |-> property_id,
                    raised |-> r.raised]

\* The pure functions: only the record of the call changes.
CategorizeRisk(risk_score) ==
    /\ last' = [op |-> "categorize_risk", raised |-> "none", risk_score |-> risk_score,
                risk_category |-> categorize_risk(risk_score)]
    /\ UNCHANGED <<defect_tags, classification_history, error_log, processing_status,
                   room_risk_score, property_risk, summary_text, calls, in_progress,
                   reclassifying>>

GetSeverityWeight(defect_category) ==
    /\ last' = [op |-> "get_severity_weight", raised |-> "none",
                defect_category |-> defect_category,
                severity_weight |-> get_severity_weight(defect_category)]
    /\ UNCHANGED <<defect_tags, classification_history, error_log, processing_status,
                   room_risk_score, property_risk, summary_text, calls, in_progress,
                   reclassifying>>

(***************************************************************************)
(* The inputs of the calls: the answers of Cortex, and the sets of         *)
(* statement kinds that fail during a call.                                *)
(***************************************************************************)
In(cortex, faults) == [cortex |-> cortex, faults |-> faults]

TextAnswers ==
    {Label("crack"), Label("electrical wiring"), Label("rust"), Nothing, Error(FALSE)}

ImageAnswers ==
    {Labels(<<"crack", "mold">>), Labels(<<"mold", "rust">>), Label("exposed wiring"),
     Nothing, Error(FALSE), Error(TRUE)}

StoreFaults == {{"insert_tag"}, {"insert_history"}}

TextInputs ==
    {In(a, {}) : a \in TextAnswers}
    \cup {In(Label("crack"), s) : s \in StoreFaults \cup {{"update_processed"}}}
    \cup {In(Error(FALSE), {"insert_log"}), In(Nothing, {"insert_history", "update_failed"}),
          In(Label("crack"), {"insert_history", "ValueError"})}

ImageInputs ==
    {In(a, {}) : a \in ImageAnswers}
    \cup {In(Labels(<<"crack", "mold">>), s) : s \in StoreFaults \cup {{"update_processed"}}}
    \cup {In(Error(TRUE), {"insert_log"}), In(Error(TRUE), {"update_failed"}),
          In(Labels(<<"mold", "rust">>), {"insert_log"}),
          In(Labels(<<"crack", "mold">>), {"insert_history", "ValueError"})}

\* What a path holds that names no image that can be read.
PathMarkers == {"missing", "nonexistent", "notfound", "corrupted"}

\* The names get_severity_weight is asked for: the table, and names not in it.
CategoryNames == DOMAIN SEVERITY_WEIGHTS \cup {"rust", "Mold", ""}

TextCalls(findings, inputs, max) ==
    /\ calls < max
    /\ \/ \E f \in findings, in \in inputs :
             ClassifyText(f, FindingRow[f].note_text, in.cortex, in.faults)
       \/ \E f \in findings, note_text \in {Blank, NoText} :
             ClassifyText(f, note_text, Label("crack"), {})
       \/ ClassifyText("", Text({"crack"}), Label("crack"), {})

ImageCalls(findings, inputs, max) ==
    /\ calls < max
    /\ \/ \E f \in findings, in \in inputs :
             ClassifyImage(f, FindingRow[f].image_stage_path, in.cortex, in.faults)
       \/ \E f \in findings, m \in PathMarkers, faults \in {{}, {"insert_log"}, {"update_failed"}} :
             ClassifyImage(f, Text({m, "crack"}), Label("crack"), faults)
       \/ \E f \in findings, image_stage_path \in {Blank, NoText} :
             ClassifyImage(f, image_stage_path, Label("crack"), {})
       \/ ClassifyImage("", Text({"crack"}), Label("crack"), {})

StoreCalls(findings, categories, fault_sets, max) ==
    /\ calls < max
    /\ \E f \in findings, c \in categories, faults \in fault_sets :
          Store(f, c, 95, "manual", faults)

ReclassifyCalls(findings, lists, fault_sets, max) ==
    /\ calls < max
    /\ \E f \in findings, new_categories \in lists, faults \in fault_sets :
          Reclassify(f, new_categories, faults)

BatchCalls(batches, max) ==
    /\ calls < max
    /\ \E items \in batches : BatchClassify(items)

TagReads(findings, max) ==
    /\ calls < max
    /\ \E f \in findings : GetDefectTags(f)

DetailReads(properties, max) ==
    /\ calls < max
    /\ \E p \in properties : GetRiskCalculationDetails(p)

RoomRiskCalls(rooms, fault_sets, max) ==
    /\ calls < max
    /\ \E r \in rooms, faults \in fault_sets : ComputeRoomRisk(r, faults)

PropertyRiskCalls(properties, fault_sets, max) ==
    /\ calls < max
    /\ \E p \in properties, faults \in fault_sets : ComputePropertyRisk(p, faults)

SummaryCalls(properties, inputs, max) ==
    /\ calls < max
    /\ \E p \in properties, in \in inputs : GenerateSummary(p, in.cortex, in.faults)

(***************************************************************************)
(* Spec: classification and recording, with statements that fail.          *)
(***************************************************************************)
Next ==
    \/ TextCalls({"f1"}, TextInputs, MaxCalls)
    \/ ImageCalls({"f2"}, ImageInputs, MaxCalls)
    \/ StoreCalls({"f1"}, {"mold", "rust"}, {{}} \cup StoreFaults, MaxCalls)
    \/ ReclassifyCalls({"f1", "f2"}, {<<"mold">>, <<"crack", "mold">>},
                       {{}, {"delete_tags"}} \cup StoreFaults, MaxCalls)
    \/ TagReads({"f1", "f2"}, MaxCalls)

Spec == Init /\ [][Next]_vars

(***************************************************************************)
(* SpecRisk: tags are recorded and replaced, and the risk is computed.     *)
(***************************************************************************)
RiskNext ==
    \/ TextCalls({"f1"}, {In(Label("crack"), {})}, MaxRiskCalls)
    \/ ImageCalls({"f2"}, {In(Labels(<<"crack", "mold">>), {})}, MaxRiskCalls)
    \/ StoreCalls({"f1", "f3"}, {"mold"}, {{}}, MaxRiskCalls)
    \/ ReclassifyCalls({"f1", "f3"}, {<<"none">>, <<"crack">>}, {{}}, MaxRiskCalls)
    \/ RoomRiskCalls(Rooms, {{}, {"update_room"}}, MaxRiskCalls)
    \/ PropertyRiskCalls(Properties, {{}, {"update_room"}, {"update_property"}}, MaxRiskCalls)
    \/ DetailReads(Properties, MaxRiskCalls)

SpecRisk == Init /\ [][RiskNext]_vars

(***************************************************************************)
(* SpecCore: every operation of the core.                                  *)
(***************************************************************************)
CoreBatches ==
    LET items == {Item("f1", Label("crack"), {}), Item("f9", Label("crack"), {}),
                  Item("f2", Error(TRUE), {}), Item("f3", Nothing, {"insert_history"}),
                  Item("f9", Label("crack"), {"insert_log"}),
                  Item("f4", Label("crack"), {}), Item("f2", Label("crack"), {})}
    IN  {<<>>} \cup {<<a>> : a \in items} \cup {<<a, b>> : a \in items, b \in items}

SummaryInputs ==
    {In(Label("text"), {}), In(Nothing, {}), In(Error(FALSE), {}),
     In(Error(FALSE), {"insert_log"}), In(Nothing, {"update_summary"})}

CoreNext ==
    \/ TextCalls({"f1"}, {In(Label("crack"), {}), In(Nothing, {"insert_history"})}, MaxCoreCalls)
    \/ ImageCalls({"f2"}, {In(Labels(<<"crack", "mold">>), {}),
                           In(Labels(<<"crack", "crack">>), {}),
                           In(Labels(<<"crack", "mold">>), {"insert_history"})}, MaxCoreCalls)
    \/ StoreCalls({"f3"}, {"mold"}, {{}} \cup StoreFaults, MaxCoreCalls)
    \/ ReclassifyCalls({"f1"}, {<<"mold">>}, {{}, {"delete_tags"}, {"insert_tag"}}, MaxCoreCalls)
    \/ BatchCalls(CoreBatches, MaxCoreCalls)
    \/ RoomRiskCalls(Rooms, {{}, {"update_room"}}, MaxCoreCalls)
    \/ PropertyRiskCalls(Properties, {{}, {"update_property"}}, MaxCoreCalls)
    \/ SummaryCalls(Properties, SummaryInputs, MaxCoreCalls)
    \/ TagReads(Findings, MaxCoreCalls)
    \/ DetailReads(Properties, MaxCoreCalls)

SpecCore == Init /\ [][CoreNext]_vars

(***************************************************************************)
(* SpecPure: the pure functions, applied to every input of their sets,     *)
(* in a store that holds tags.                                             *)
(***************************************************************************)
PureNext ==
    \/ StoreCalls({"f1"}, {"mold", "rust"}, {{}}, MaxPureCalls)
    \/ \E risk_score \in -MaxScore..MaxScore : CategorizeRisk(risk_score)
    \/ \E c \in CategoryNames : GetSeverityWeight(c)

SpecPure == Init /\ [][PureNext]_vars

(***************************************************************************)
(* The commits of one classification, with the reads of another            *)
(* connection between them.  _store_classification_result commits after    *)
(* the two INSERTs of each tag, and the caller commits once more after     *)
(* the UPDATE to 'processed': a classification that stores n tags makes    *)
(* n + 1 commits, and a statement of another connection can be executed    *)
(* after each of them.  No statement fails in these steps.                 *)
(***************************************************************************)
Idle == [op |-> "idle"]

\* classify_text_finding up to its store: the Cortex call and the
\* validation of the category.
BeginText(f, note_text, cortex) ==
    LET a == text_label(DB, f, note_text, cortex, {})
        valid == a.defect_tag \in TEXT_DEFECT_CATEGORIES
        l == IF valid THEN [db |-> a.db, raised |-> "none"]
             ELSE _log_error(a.db, "invalid_category", "finding", f, {})
    IN  /\ calls < MaxCommits
        /\ in_progress = Idle
        /\ f # "" /\ ~note_text.empty
        /\ Apply(l.db)
        /\ in_progress' = [op |-> "classify_text_finding", finding_id |-> f,
                           tags |-> <<IF valid THEN a.defect_tag ELSE "none">>,
                           confidence_score |-> IF valid THEN a.confidence_score ELSE 0,
                           classification_method |-> "text_ai", stored |-> 0]
        /\ UNCHANGED <<last, reclassifying>>

\* classify_image_finding up to its store loop: the path check, the Cortex
\* call and the validation of the labels.
BeginImage(f, image_stage_path, cortex) ==
    LET a == image_labels(DB, f, image_stage_path, cortex, {})
        v == validate_tags(a.db, f, a.defect_tags, {})
        none == v.validated_tags = <<>>
    IN  /\ calls < MaxCommits
        /\ in_progress = Idle
        /\ f # "" /\ ~image_stage_path.empty
        /\ ~ContainsAny(image_stage_path, PathMarkers)
        /\ a.raised = "none"
        /\ Apply(v.db)
        /\ in_progress' = [op |-> "classify_image_finding", finding_id |-> f,
                           tags |-> IF none THEN <<"none">> ELSE v.validated_tags,
                           confidence_score |-> IF none THEN 0 ELSE a.confidence_score,
                           classification_method |-> "image_ai", stored |-> 0]
        /\ UNCHANGED <<last, reclassifying>>

\* One _store_classification_result of the classification in progress, with
\* its commit.
StoreNextTag ==
    /\ calls < MaxCommits
    /\ in_progress # Idle
    /\ in_progress.stored < Len(in_progress.tags)
    /\ Apply(_store_classification_result(DB, in_progress.finding_id,
                in_progress.tags[in_progress.stored + 1], in_progress.confidence_score,
                in_progress.classification_method, {}).db)
    /\ in_progress' = [in_progress EXCEPT !.stored = @ + 1]
    /\ UNCHANGED <<last, reclassifying>>

\* The UPDATE to 'processed' with its commit, and the return.
MarkProcessed ==
    /\ calls < MaxCommits
    /\ in_progress # Idle
    /\ in_progress.stored = Len(in_progress.tags)
    /\ Apply(update_status(DB, in_progress.finding_id, "processed", {}).db)
    /\ in_progress' = Idle
    /\ last' = [op |-> in_progress.op, finding_id |-> in_progress.finding_id,
                raised |-> "none", tags |-> in_progress.tags]
    /\ UNCHANGED reclassifying

(***************************************************************************)
(* DashboardData.get_room_details: the findings of a room in the order of  *)
(* their ids, each with its processing_status and with its tag rows        *)
(* ORDER BY severity_weight DESC, defect_category.  The SELECTs of one     *)
(* call are executed with no commit of another connection in between.      *)
(***************************************************************************)
\* The categories in the order of their names.
CategoryOrder ==
    <<"crack", "damp wall", "electrical wiring", "exposed wiring", "mold", "none",
      "water leak">>

CategoryRank(c) ==
    IF \E i \in 1..Len(CategoryOrder) : CategoryOrder[i] = c
    THEN CHOOSE i \in 1..Len(CategoryOrder) : CategoryOrder[i] = c
    ELSE 0

TagBefore(a, b) ==
    \/ a.severity_weight > b.severity_weight
    \/ /\ a.severity_weight = b.severity_weight
       /\ CategoryRank(a.defect_category) <= CategoryRank(b.defect_category)

RECURSIVE InsertTag(_, _)
InsertTag(row, rows) ==
    IF rows = <<>> THEN <<row>>
    ELSE IF TagBefore(row, Head(rows)) THEN <<row>> \o rows
    ELSE <<Head(rows)>> \o InsertTag(row, Tail(rows))

RECURSIVE OrderTags(_)
OrderTags(rows) ==
    IF rows = <<>> THEN <<>> ELSE InsertTag(Head(rows), OrderTags(Tail(rows)))

get_room_details(db, room_id) ==
    LET ids == SelectSeq(FindingOrder, LAMBDA f : FindingRoom[f] = room_id)
    IN  [room_id |-> room_id,
         risk_score |-> db.room_risk_score[room_id],
         findings |-> [i \in 1..Len(ids) |->
                          [finding_id |-> ids[i],
                           processing_status |-> db.processing_status[ids[i]],
                           defect_tags |-> OrderTags(db.defect_tags[ids[i]])]]]

GetRoomDetails(room_id) ==
    /\ calls < MaxCommits
    /\ Commit(DB)
    /\ last' = [op |-> "get_room_details", room_id |-> room_id, raised |-> "none",
                room_data |-> get_room_details(DB, room_id)]

\* The answers of Cortex in the behaviours of SpecCommits.
CommitTextAnswers == {Label("mold"), Label("rust"), Error(FALSE)}
CommitImageAnswers == {Labels(<<"crack", "mold">>), Labels(<<"rust", "water leak">>), Nothing}

CommitNext ==
    \/ \E cortex \in CommitTextAnswers : BeginText("f1", FindingRow["f1"].note_text, cortex)
    \/ \E cortex \in CommitImageAnswers :
          BeginImage("f2", FindingRow["f2"].image_stage_path, cortex)
    \/ StoreNextTag
    \/ MarkProcessed
    \/ GetRoomDetails("r1")

SpecCommits == Init /\ [][CommitNext]_vars

(***************************************************************************)
(* Two connections that reclassify at the same time.  A reclassification   *)
(* is DELETE FROM defect_tags WHERE finding_id = f with its commit, then   *)
(* one _store_classification_result per new tag, each with its commit;     *)
(* nothing in the code takes a lock or checks what another connection      *)
(* has written.  No statement fails in these steps.                        *)
(***************************************************************************)
\* The DELETE of a reclassification, and its commit.
DeleteCurrentTags(c, f, new_categories) ==
    /\ calls < MaxReclassifyCommits
    /\ reclassifying[c] = Idle
    /\ Apply([DB EXCEPT !.defect_tags[f] = <<>>])
    /\ reclassifying' = [reclassifying EXCEPT ![c] =
                            [op |-> "reclassify", finding_id |-> f,
                             new_categories |-> new_categories, stored |-> 0]]
    /\ last' = [op |-> "delete_tags", finding_id |-> f, raised |-> "none"]
    /\ UNCHANGED in_progress

\* The next _store_classification_result of a reclassification; after the
\* last one the reclassification is complete.
StoreNewTag(c) ==
    LET r == reclassifying[c]
    IN  /\ calls < MaxReclassifyCommits
        /\ r.op = "reclassify"
        /\ r.stored < Len(r.new_categories)
        /\ Apply(_store_classification_result(DB, r.finding_id,
                    r.new_categories[r.stored + 1], 95, "manual", {}).db)
        /\ reclassifying' = [reclassifying EXCEPT ![c] =
                                IF r.stored + 1 = Len(r.new_categories)
                                THEN [r EXCEPT !.op = "complete", !.stored = @ + 1]
                                ELSE [r EXCEPT !.stored = @ + 1]]
        /\ last' = [op |-> "_store_classification_result", finding_id |-> r.finding_id,
                    raised |-> "none", defect_category |-> r.new_categories[r.stored + 1],
                    confidence_score |-> 95, classification_method |-> "manual"]
        /\ UNCHANGED in_progress

\* The tags a finding has before it is reclassified.
FirstClassification ==
    /\ \A c \in Connections : reclassifying[c] = Idle
    /\ TextCalls({"f1"}, {In(Label("crack"), {})}, MaxReclassifyCommits)

ReclassifyNext ==
    \/ FirstClassification
    \/ \E c \in Connections, f \in {"f1", "f3"},
          new_categories \in {<<"mold">>, <<"crack", "water leak">>} :
             DeleteCurrentTags(c, f, new_categories)
    \/ \E c \in Connections : StoreNewTag(c)

SpecReclassify == Init /\ [][ReclassifyNext]_vars

(***************************************************************************)
(* SpecFallback: the keyword fallbacks, applied to notes and paths that    *)
(* hold every combination of the keyword groups, with a classifier that    *)
(* answers nothing or fails.                                               *)
(***************************************************************************)
\* The notes with every combination of one keyword of each group of
\* _fallback_text_classification, and the notes with one other keyword.
KeywordNotes ==
    {Text(s) : s \in SUBSET {"exposed wire", "damp", "mold", "leak", "crack"}}
    \cup {Text({k}) : k \in {"live wire", "humid", "fungus", "drip", "fracture"}}

\* The paths with every combination of three keyword groups of
\* _fallback_image_classification, and paths with other keywords.
KeywordPaths ==
    {Text(s) : s \in SUBSET {"fissure", "water", "mould"}}
    \cup {Text({"wiring"}), Text({"crack", "electrical"})}

TextFallbackCalls(notes, max) ==
    /\ calls < max
    /\ \E note_text \in notes, cortex \in {Nothing, Error(FALSE)} :
          ClassifyText("f1", note_text, cortex, {})

ImageFallbackCalls(paths, max) ==
    /\ calls < max
    /\ \E image_stage_path \in paths, cortex \in {Nothing, Error(FALSE)} :
          ClassifyImage("f2", image_stage_path, cortex, {})

FallbackNext ==
    \/ TextFallbackCalls(KeywordNotes, MaxFallbackCalls)
    \/ ImageFallbackCalls(KeywordPaths, MaxFallbackCalls)

SpecFallback == Init /\ [][FallbackNext]_vars

(***************************************************************************)
(* What the properties below are stated with.                              *)
(***************************************************************************)
IsPrefix(s, t) == Len(s) <= Len(t) /\ SubSeq(t, 1, Len(s)) = s

\* The severity table as the specification gives it.
TableWeight(c) ==
    CASE c \in {"exposed wiring", "electrical wiring", "damp wall", "mold"} -> 3
      [] c \in {"water leak", "crack"} -> 2
      [] OTHER -> 0

\* The tag rows (finding, position) that are attached to a room.
TagRowsOfRoom(r) ==
    UNION {{f} \X (1..Len(defect_tags[f])) : f \in {g \in Findings : FindingRoom[g] = r}}

TagRowsOfRooms(rooms) == UNION {TagRowsOfRoom(r) : r \in rooms}

\* The sum of severity_weight over a set of tag rows.
WeightOfRows(rows) ==
    LET N(w) == Cardinality({x \in rows : defect_tags[x[1]][x[2]].severity_weight = w})
    IN  N(1) + 2 * N(2) + 3 * N(3)

RoomsOfProperty(p) == {r \in Rooms : RoomProperty[r] = p}

RECURSIVE SumOfScores(_, _)
SumOfScores(scores, rooms) ==
    IF rooms = {} THEN 0
    ELSE LET r == CHOOSE x \in rooms : TRUE
         IN  scores[r][1] + SumOfScores(scores, rooms \ {r})

RECURSIVE SumOfDetails(_)
SumOfDetails(rooms) ==
    IF rooms = <<>> THEN 0
    ELSE LET d == Head(rooms).defects
             N(w) == Cardinality({i \in 1..Len(d) : d[i].severity_weight = w})
         IN  N(1) + 2 * N(2) + 3 * N(3) + SumOfDetails(Tail(rooms))

(***************************************************************************)
(* C1.  In every reachable state, also one that a call which failed        *)
(* part-way has left, every finding has at least as many                   *)
(* classification_history rows as defect_tags rows.                        *)
(***************************************************************************)
HistoryCoversTags ==
    \A f \in Findings : Len(classification_history[f]) >= Len(defect_tags[f])

(***************************************************************************)
(* C2.  No operation of the core deletes or updates a history row (the     *)
(* history of a finding only grows at its end), and every tag row that an  *)
(* operation stores comes with exactly one new history row.                *)
(***************************************************************************)
TagsStoredInStep(f) ==
    IF last'.op = "reclassify" /\ last'.finding_id = f /\ last'.deleted
    THEN Len(defect_tags'[f])
    ELSE Len(defect_tags'[f]) - Len(defect_tags[f])

HistoryAppendOnly ==
    [][\A f \in Findings :
          /\ IsPrefix(classification_history[f], classification_history'[f])
          /\ Len(classification_history'[f]) - Len(classification_history[f])
                = TagsStoredInStep(f)]_vars

(***************************************************************************)
(* C3.  A reclassification that returns leaves the history rows that       *)
(* existed untouched, makes the history of the finding strictly longer,    *)
(* and leaves as current tags exactly the new tags; a finding that held    *)
(* one AI tag and is reclassified with one manual tag ends with a history  *)
(* of at least 2 rows, the AI entry and the manual entry among them, and   *)
(* with 1 current tag, the new one.                                        *)
(***************************************************************************)
ReclassificationKeepsHistory ==
    [][(last'.op = "reclassify" /\ last'.raised = "none") =>
          LET f == last'.finding_id
              new == last'.new_categories
              old == defect_tags[f]
              h == classification_history'[f]
          IN  /\ \A g \in Findings :
                    IsPrefix(classification_history[g], classification_history'[g])
              /\ Len(h) > Len(classification_history[f])
              /\ Len(defect_tags'[f]) = Len(new)
              /\ \A i \in 1..Len(new) : defect_tags'[f][i].defect_category = new[i]
              /\ (Len(old) = 1 /\ old[1].confidence_score # 95 /\ Len(new) = 1) =>
                    /\ Len(h) >= 2
                    /\ \E i \in 1..Len(h) :
                          /\ h[i].classification_method \in {"text_ai", "image_ai"}
                          /\ h[i].defect_category = old[1].defect_category
                    /\ \E i \in 1..Len(h) :
                          /\ h[i].classification_method = "manual"
                          /\ h[i].defect_category = new[1]
                    /\ Len(defect_tags'[f]) = 1]_vars

(***************************************************************************)
(* C4.  A call _store_classification_result(f, c, conf, m) that returns    *)
(* has appended one defect_tags row (c, conf, the table weight of c, 0     *)
(* when c is not in the table) and one classification_history row          *)
(* (c, conf, m) to the rows of f, and has left every other tag row and     *)
(* every other history row as it was.                                      *)
(***************************************************************************)
StoreInsertsOneTagOneHistory ==
    [][(last'.op = "_store_classification_result" /\ last'.raised = "none") =>
          LET f == last'.finding_id
              c == last'.defect_category
              conf == last'.confidence_score
          IN  /\ defect_tags' =
                    [defect_tags EXCEPT ![f] =
                        Append(@, [defect_category |-> c, confidence_score |-> conf,
                                   severity_weight |-> TableWeight(c)])]
              /\ classification_history' =
                    [classification_history EXCEPT ![f] =
                        Append(@, [defect_category |-> c, confidence_score |-> conf,
                                   classification_method |->
                                       last'.classification_method])]]_vars

\* 'rust', which is in no table, has been stored with weight 0 for a finding
\* that held a tag already.
StoredUnknownCategoryAfterTag ==
    /\ last.op = "_store_classification_result" /\ last.raised = "none"
    /\ last.defect_category = "rust"
    /\ Len(defect_tags[last.finding_id]) >= 2
    /\ defect_tags[last.finding_id][Len(defect_tags[last.finding_id])].severity_weight = 0
    /\ defect_tags[last.finding_id][1].severity_weight = 3

(***************************************************************************)
(* C5.  A call compute_room_risk(r) that returns has returned the sum of   *)
(* severity_weight over the tag rows attached to r through their finding,  *)
(* has stored that value as the risk_score of r (and changed no other      *)
(* room), and has returned one detail entry per tag row.                   *)
(***************************************************************************)
RoomRiskIsSumOfWeights ==
    [][(last'.op = "compute_room_risk" /\ last'.raised = "none") =>
          LET r == last'.room_id
              rows == TagRowsOfRoom(r)
              details == last'.defect_details
          IN  /\ last'.risk_score = WeightOfRows(rows)
              /\ room_risk_score' = [room_risk_score EXCEPT ![r] = <<WeightOfRows(rows)>>]
              /\ Len(details) = Cardinality(rows)
              /\ \A c \in DOMAIN SEVERITY_WEIGHTS :
                    Cardinality({i \in 1..Len(details) :
                                    details[i].defect_category = c}) =
                    Cardinality({x \in rows :
                                    defect_tags[x[1]][x[2]].defect_category = c})
              /\ UNCHANGED <<defect_tags, classification_history>>]_vars

\* The tags crack (2), crack (2) and mold (3) of a room have given 7.
RoomRiskOfThreeTagsIsSeven ==
    /\ last.op = "compute_room_risk" /\ last.raised = "none"
    /\ last.risk_score = 7
    /\ Len(last.defect_details) = 3
    /\ room_risk_score[last.room_id] = <<7>>

(***************************************************************************)
(* C6.  A call compute_property_risk(p) that returns has computed the      *)
(* rooms of p whose stored risk_score was NULL and no other, has returned  *)
(* the sum of the rooms' scores and its category and stored both on p,     *)
(* and has left no room of p with a NULL score; for a property without     *)
(* rooms or without defects the call returns (0, 'Low') and does not       *)
(* raise.                                                                  *)
(***************************************************************************)
NoDefects(p) ==
    \A x \in TagRowsOfRooms(RoomsOfProperty(p)) :
        defect_tags[x[1]][x[2]].defect_category = "none"

PropertyRiskBackfillsRooms ==
    [][/\ (last'.op = "compute_property_risk" /\ last'.raised = "none") =>
             LET p == last'.property_id
                 rooms == RoomsOfProperty(p)
                 score == SumOfScores(room_risk_score', rooms)
             IN  /\ last'.computed = {r \in rooms : room_risk_score[r] = <<>>}
                 /\ \A r \in rooms :
                       /\ room_risk_score'[r] # <<>>
                       /\ room_risk_score[r] # <<>> =>
                             room_risk_score'[r] = room_risk_score[r]
                       /\ room_risk_score[r] = <<>> =>
                             room_risk_score'[r] = <<WeightOfRows(TagRowsOfRoom(r))>>
                 /\ last'.risk_score = score
                 /\ last'.risk_category =
                       (IF score < 5 THEN "Low" ELSE IF score < 10 THEN "Medium" ELSE "High")
                 /\ property_risk'[p] = [risk_score |-> <<last'.risk_score>>,
                                         risk_category |-> <<last'.risk_category>>]
       /\ \A p \in Properties :
             ((RoomsOfProperty(p) = {} \/ NoDefects(p)) /\ ComputePropertyRisk(p, {})) =>
                last'.raised = "none" /\ last'.risk_score = 0 /\ last'.risk_category = "Low"]_vars

(***************************************************************************)
(* C7.  In every reachable state, for every property whose risk score has  *)
(* been persisted, the severity weights of the defects that                *)
(* get_risk_calculation_details returns for it add up to the persisted     *)
(* risk_score.                                                             *)
(***************************************************************************)
DetailsAddUpToPersistedScore ==
    \A p \in Properties :
        property_risk[p].risk_score # <<>> =>
            SumOfDetails(get_risk_calculation_details(DB, p).rooms)
                = property_risk[p].risk_score[1]

(***************************************************************************)
(* C8.  Every call compute_property_risk(p) that returns has returned and  *)
(* stored the sum of severity_weight over the tag rows attached to the     *)
(* findings of p's rooms at the time of the call, whatever risk_score the  *)
(* rooms held.                                                             *)
(***************************************************************************)
PropertyRiskReflectsCurrentTags ==
    [][(last'.op = "compute_property_risk" /\ last'.raised = "none") =>
          LET p == last'.property_id
              total == WeightOfRows(TagRowsOfRooms(RoomsOfProperty(p)))
          IN  /\ last'.risk_score = total
              /\ property_risk'[p].risk_score = <<total>>]_vars

(***************************************************************************)
(* C9.  categorize_risk(score) is 'Low' for score < 5, 'Medium' for        *)
(* 5 <= score < 10 and 'High' for score >= 10: 4 is Low, 5 and 9 are       *)
(* Medium, 10 is High.                                                     *)
(***************************************************************************)
CategorizeRiskThresholds ==
    last.op = "categorize_risk" =>
        /\ last.risk_score < 5 => last.risk_category = "Low"
        /\ (5 <= last.risk_score /\ last.risk_score < 10) => last.risk_category = "Medium"
        /\ last.risk_score >= 10 => last.risk_category = "High"
        /\ last.risk_score = 4 => last.risk_category = "Low"
        /\ last.risk_score \in {5, 9} => last.risk_category = "Medium"
        /\ last.risk_score = 10 => last.risk_category = "High"

\* categorize_risk has been asked for 10, the least score that is High.
CategorizedTenAsHigh ==
    last.op = "categorize_risk" /\ last.risk_score = 10 /\ last.risk_category = "High"

(***************************************************************************)
(* C10.  get_severity_weight(c) returns 3 for 'exposed wiring',            *)
(* 'electrical wiring', 'damp wall' and 'mold', 2 for 'water leak' and     *)
(* 'crack', 0 for 'none' and for every other name; it does not raise and   *)
(* it leaves every table as it was.                                        *)
(***************************************************************************)
SeverityWeightIsTableLookup ==
    [][last'.op = "get_severity_weight" =>
          /\ last'.raised = "none"
          /\ last'.severity_weight = TableWeight(last'.defect_category)
          /\ UNCHANGED <<defect_tags, classification_history, error_log, processing_status,
                         room_risk_score, property_risk, summary_text>>]_vars

\* get_severity_weight has been asked for a name that is in no table, in a
\* store that holds tags.
WeightOfUnknownCategoryIsZero ==
    /\ last.op = "get_severity_weight" /\ last.defect_category = "rust"
    /\ last.severity_weight = 0
    /\ defect_tags["f1"] # <<>>

(***************************************************************************)
(* C11.  A call classify_text_finding or classify_image_finding that       *)
(* returns has returned a non-empty list of categories of the finding's    *)
(* type, and the defect_tags rows and classification_history rows it has   *)
(* appended carry exactly these categories, whatever the classifier        *)
(* answered.                                                               *)
(***************************************************************************)
ValidCategoriesOf(op) ==
    IF op = "classify_text_finding"
    THEN {"damp wall", "exposed wiring", "crack", "mold", "water leak", "none"}
    ELSE {"crack", "water leak", "mold", "electrical wiring", "none"}

ClassificationReturnsValidCategories ==
    [][(/\ last'.op \in {"classify_text_finding", "classify_image_finding"}
        /\ last'.raised = "none") =>
          LET f == last'.finding_id
              tags == last'.tags
              t0 == Len(defect_tags[f])
              h0 == Len(classification_history[f])
          IN  /\ Len(tags) >= 1
              /\ \A i \in 1..Len(tags) : tags[i] \in ValidCategoriesOf(last'.op)
              /\ Len(defect_tags'[f]) = t0 + Len(tags)
              /\ Len(classification_history'[f]) = h0 + Len(tags)
              /\ \A i \in 1..Len(tags) :
                    /\ defect_tags'[f][t0 + i].defect_category = tags[i]
                    /\ classification_history'[f][h0 + i].defect_category = tags[i]]_vars

\* An image classification whose classifier answered a valid and an unknown
\* label has returned the valid one and logged the other.
ImageAnswerWithUnknownLabelFiltered ==
    /\ last.op = "classify_image_finding" /\ last.raised = "none"
    /\ last.tags = <<"mold">>
    /\ \E i \in 1..Len(error_log) : error_log[i].error_type = "invalid_category"

(***************************************************************************)
(* C12.  batch_classify_findings returns without raising for every list    *)
(* of finding ids, and its result holds exactly the ids of the existing    *)
(* findings whose classification succeeded, each with a non-empty list of  *)
(* tags: an item that fails (a finding that does not exist, an image that  *)
(* cannot be accessed, a statement that raises while its result is         *)
(* recorded) keeps no other item from being classified.                    *)
(***************************************************************************)
\* The item is an existing finding with content whose classification meets
\* no failure.
ItemSucceeds(item) ==
    /\ item.finding_id \in Findings
    /\ \/ /\ FindingRow[item.finding_id].finding_type = "text"
          /\ ~FindingRow[item.finding_id].note_text.falsy
       \/ /\ FindingRow[item.finding_id].finding_type = "image"
          /\ ~FindingRow[item.finding_id].image_stage_path.falsy
    /\ ~(FindingType[item.finding_id] = "image" /\ item.cortex = Error(TRUE))
    /\ item.faults \cap {"insert_tag", "insert_history", "update_processed"} = {}

BatchIsolatesFailures ==
    [][\A items \in CoreBatches :
          BatchClassify(items) =>
             /\ last'.raised = "none"
             /\ DOMAIN last'.results =
                   {items[i].finding_id : i \in {j \in 1..Len(items) : ItemSucceeds(items[j])}}
             /\ \A f \in DOMAIN last'.results :
                   /\ last'.results[f] # <<>>
                   /\ Len(defect_tags'[f]) > Len(defect_tags[f])]_vars

(***************************************************************************)
(* C13.  classify_image_finding on a path that holds 'missing',            *)
(* 'nonexistent', 'notfound' or 'corrupted', or whose classifier call      *)
(* fails with an asset-access error, raises ValueError, logs one           *)
(* 'image_access_error', sets the status of the finding to 'failed' and    *)
(* stores no tag row and no history row (the keywords of the path are not  *)
(* used); with a marker in the path the outcome does not depend on the     *)
(* classifier, which is not called.                                        *)
(***************************************************************************)
AssetUnavailableOutcome(f) ==
    /\ last'.raised = "ValueError"
    /\ last'.tags = <<>>
    /\ error_log' = <<[error_type |-> "image_access_error", entity_type |-> "finding",
                       entity_id |-> f]>>
    /\ processing_status' = [processing_status EXCEPT ![f] = "failed"]
    /\ UNCHANGED <<defect_tags, classification_history>>

AssetUnavailableRaises ==
    [][(last'.op = "classify_image_finding" /\ last'.finding_id \in Findings) =>
          LET f == last'.finding_id
          IN  /\ \A m \in PathMarkers :
                    ClassifyImage(f, Text({m, "crack"}), Label("crack"), {}) =>
                       /\ AssetUnavailableOutcome(f)
                       /\ \A cortex \in ImageAnswers :
                             classify_image_finding(DB, f, Text({m, "crack"}), cortex, {}) =
                             classify_image_finding(DB, f, Text({m, "crack"}), Label("crack"), {})
              /\ ClassifyImage(f, FindingRow[f].image_stage_path, Error(TRUE), {}) =>
                    AssetUnavailableOutcome(f)]_vars

\* An image that cannot be accessed went to 'failed' with a ValueError; the
\* two tags of an earlier classification are still there, and no more.
ImageAccessErrorAfterTags ==
    /\ last.op = "classify_image_finding" /\ last.raised = "ValueError"
    /\ processing_status["f2"] = "failed"
    /\ error_log # <<>> /\ error_log[1].error_type = "image_access_error"
    /\ Len(defect_tags["f2"]) = 2
    /\ Len(classification_history["f2"]) = 2

(***************************************************************************)
(* C14.  When the classifier call fails with an error that is no           *)
(* asset-access error, classify_text_finding and classify_image_finding    *)
(* return: they log one 'classification_error', store the tags that the    *)
(* keywords of the note or of the path give (confidence 0.5) and leave     *)
(* the finding 'processed'.                                                *)
(***************************************************************************)
\* What the keywords of the findings' contents give: the note of f1 holds
\* 'damp' and 'mold', the path of f2 'leak' and 'wire', the note of f3 'crack'.
KeywordTags(f) ==
    CASE f = "f1" -> <<"damp wall">>
      [] f = "f2" -> <<"water leak", "electrical wiring">>
      [] f = "f3" -> <<"crack">>

FallbackOutcome(f, method) ==
    LET tags == KeywordTags(f)
    IN  /\ last'.raised = "none"
        /\ last'.tags = tags
        /\ error_log' = <<[error_type |-> "classification_error", entity_type |-> "finding",
                           entity_id |-> f]>>
        /\ defect_tags' = [defect_tags EXCEPT ![f] = @ \o
              [i \in 1..Len(tags) |-> [defect_category |-> tags[i], confidence_score |-> 50,
                                       severity_weight |-> TableWeight(tags[i])]]]
        /\ classification_history' = [classification_history EXCEPT ![f] = @ \o
              [i \in 1..Len(tags) |-> [defect_category |-> tags[i], confidence_score |-> 50,
                                       classification_method |-> method]]]
        /\ processing_status' = [processing_status EXCEPT ![f] = "processed"]

ServiceErrorFallsBack ==
    [][(/\ last'.op \in {"classify_text_finding", "classify_image_finding"}
        /\ last'.finding_id \in Findings) =>
          LET f == last'.finding_id
          IN  /\ ClassifyText(f, FindingRow[f].note_text, Error(FALSE), {}) =>
                    FallbackOutcome(f, "text_ai")
              /\ ClassifyImage(f, FindingRow[f].image_stage_path, Error(FALSE), {}) =>
                    FallbackOutcome(f, "image_ai")]_vars

\* The text classifier failed for a finding that held a tag already: the
\* keywords gave 'damp wall', the error is logged, the finding is processed.
TextFallbackAfterServiceError ==
    /\ last.op = "classify_text_finding" /\ last.raised = "none"
    /\ last.tags = <<"damp wall">>
    /\ error_log # <<>> /\ error_log[1].error_type = "classification_error"
    /\ processing_status["f1"] = "processed"
    /\ Len(defect_tags["f1"]) >= 2

(***************************************************************************)
(* C15.  classify_text_finding and classify_image_finding with an empty    *)
(* finding_id, or with a content that is None, empty or white space only,  *)
(* raise ValueError and append nothing to defect_tags,                     *)
(* classification_history and error_log and change no processing_status,  *)
(* whatever the classifier would answer.                                   *)
(***************************************************************************)
EmptyInputRejected ==
    [][last'.op \in {"classify_text_finding", "classify_image_finding"} =>
          LET f == last'.finding_id
          IN  /\ (\/ f = ""
                  \/ \E content \in {Blank, NoText} :
                        \/ ClassifyText(f, content, Label("crack"), {})
                        \/ ClassifyImage(f, content, Label("crack"), {})) =>
                    /\ last'.raised = "ValueError"
                    /\ error_log' = <<>>
                    /\ UNCHANGED <<defect_tags, classification_history, processing_status>>
              /\ last'.op = "classify_text_finding" =>
                    \A content \in {Blank, NoText}, in \in TextInputs :
                       classify_text_finding(DB, f, content, in.cortex, in.faults) =
                       classify_text_finding(DB, f, content, Label("crack"), {})
              /\ last'.op = "classify_image_finding" =>
                    \A content \in {Blank, NoText}, in \in ImageInputs :
                       classify_image_finding(DB, f, content, in.cortex, in.faults) =
                       classify_image_finding(DB, f, content, Label("crack"), {})]_vars

\* A processed finding with a tag has been classified again with a note
\* that holds no text: ValueError, nothing logged, tags and status as before.
BlankNoteRejectedAfterTag ==
    /\ last.op = "classify_text_finding" /\ last.finding_id = "f1"
    /\ last.raised = "ValueError"
    /\ error_log = <<>>
    /\ processing_status["f1"] = "processed"
    /\ Len(defect_tags["f1"]) = 1 /\ Len(classification_history["f1"]) = 1

(***************************************************************************)
(* C16.  When a statement of the store raises while classify_text_finding  *)
(* or classify_image_finding records a classification (a tag or history    *)
(* insert, the update to 'processed'), then whatever the type of the       *)
(* exception the finding is marked 'failed', a 'classification_failure'    *)
(* row is logged for it, and the exception is raised again to the caller.  *)
(***************************************************************************)
\* The inputs with which recording fails while the log and the update to
\* 'failed' work.
RecordingFails(inputs) ==
    {in \in inputs :
        /\ in.faults \cap {"insert_tag", "insert_history", "update_processed"} # {}
        /\ in.faults \cap {"insert_log", "update_failed"} = {}}

FailureOutcome(f, in) ==
    /\ last'.raised = (IF "ValueError" \in in.faults THEN "ValueError" ELSE "Exception")
    /\ processing_status'[f] = "failed"
    /\ \E i \in 1..Len(error_log') :
          error_log'[i] = [error_type |-> "classification_failure",
                           entity_type |-> "finding", entity_id |-> f]

UnexpectedFailureMarksFailed ==
    [][(/\ last'.op \in {"classify_text_finding", "classify_image_finding"}
        /\ last'.finding_id \in Findings) =>
          LET f == last'.finding_id
          IN  /\ \A in \in RecordingFails(TextInputs) :
                    ClassifyText(f, FindingRow[f].note_text, in.cortex, in.faults) =>
                       FailureOutcome(f, in)
              /\ \A in \in RecordingFails(ImageInputs) :
                    ClassifyImage(f, FindingRow[f].image_stage_path, in.cortex, in.faults) =>
                       FailureOutcome(f, in)]_vars

(***************************************************************************)
(* C17.  The processing status of a finding only moves from 'pending' to   *)
(* 'processed', from 'pending' to 'failed', or from 'processed' to         *)
(* 'processed': never from 'failed' to 'processed', from 'processed' to    *)
(* 'failed', or back to 'pending'; and a classification call sets          *)
(* 'processed' only after it stored at least one tag of the finding.       *)
(***************************************************************************)
AllowedStatusMoves ==
    {<<"pending", "processed">>, <<"pending", "failed">>, <<"processed", "processed">>}

StatusMovesForwardOnly ==
    [][\A f \in Findings :
          /\ \/ processing_status'[f] = processing_status[f]
             \/ <<processing_status[f], processing_status'[f]>> \in AllowedStatusMoves
          /\ (/\ last'.op \in {"classify_text_finding", "classify_image_finding"}
              /\ last'.finding_id = f
              /\ last'.raised = "none") =>
                /\ processing_status'[f] = "processed"
                /\ Len(defect_tags'[f]) > Len(defect_tags[f])]_vars

(***************************************************************************)
(* C18.  A classification that fails leaves no partial state: when         *)
(* classify_text_finding or classify_image_finding raises, the tag rows    *)
(* and the history rows of the finding are those from before the call.     *)
(***************************************************************************)
FailedClassificationLeavesNoRows ==
    [][(/\ last'.op \in {"classify_text_finding", "classify_image_finding"}
        /\ last'.finding_id \in Findings
        /\ last'.raised # "none") =>
          /\ defect_tags'[last'.finding_id] = defect_tags[last'.finding_id]
          /\ classification_history'[last'.finding_id] =
                classification_history[last'.finding_id]]_vars

(***************************************************************************)
(* C19.  The classify-then-record sequence of a finding is one unit of     *)
(* work for a concurrent reader: under every interleaving, a reader of     *)
(* the room sees, for a finding whose classification is in progress, none  *)
(* of the tag rows that this classification has written (neither a tag     *)
(* whose finding is not yet 'processed', nor a part of the tags of a       *)
(* multi-label image classification).                                      *)
(***************************************************************************)
\* The finding as get_room_details returned it.
SeenFinding(room_data, f) ==
    LET i == CHOOSE j \in 1..Len(room_data.findings) : room_data.findings[j].finding_id = f
    IN  room_data.findings[i]

ReadersSeeNoClassificationInProgress ==
    [][\A r \in Rooms :
          (/\ GetRoomDetails(r)
           /\ in_progress # Idle
           /\ FindingRoom[in_progress.finding_id] = r) =>
             LET f == in_progress.finding_id
                 before == SubSeq(defect_tags[f], 1, Len(defect_tags[f]) - in_progress.stored)
             IN  SeenFinding(last'.room_data, f).defect_tags = OrderTags(before)]_vars

(***************************************************************************)
(* C20.  A failure of the error-log append never fails the primary         *)
(* operation of the caller: a classify_text_finding or                     *)
(* classify_image_finding call during which the INSERT into error_log      *)
(* fails returns the same tags (or raises the same condition), and leaves  *)
(* the same tag rows and the same finding status, as the same call with    *)
(* the log working.                                                        *)
(***************************************************************************)
LogFails(inputs) == {in \in inputs : in.faults = {"insert_log"}}

SameOutcome(r) ==
    /\ last'.raised = r.raised
    /\ last'.tags = r.tags
    /\ defect_tags' = r.db.defect_tags
    /\ processing_status' = r.db.processing_status

LogFailureLeavesOutcome ==
    [][(/\ last'.op \in {"classify_text_finding", "classify_image_finding"}
        /\ last'.finding_id \in Findings) =>
          LET f == last'.finding_id
              note_text == FindingRow[f].note_text
              image_stage_path == FindingRow[f].image_stage_path
          IN  /\ \A in \in LogFails(TextInputs) :
                    ClassifyText(f, note_text, in.cortex, in.faults) =>
                       SameOutcome(classify_text_finding(DB, f, note_text, in.cortex, {}))
              /\ \A in \in LogFails(ImageInputs) :
                    ClassifyImage(f, image_stage_path, in.cortex, in.faults) =>
                       SameOutcome(classify_image_finding(DB, f, image_stage_path,
                                                          in.cortex, {}))]_vars

(***************************************************************************)
(* C21.  Recomputation is idempotent: when compute_room_risk(r) is called  *)
(* a second time directly after a call that returned, it returns the same  *)
(* score and leaves the persisted room score as it is; when                *)
(* compute_property_risk(p) is called a second time directly after a call  *)
(* that returned, it returns the same score and category and leaves the    *)
(* persisted values of the property and of the rooms as they are.          *)
(***************************************************************************)
RiskRecomputationIsIdempotent ==
    [][/\ \A r \in Rooms :
             (/\ last.op = "compute_room_risk" /\ last.room_id = r /\ last.raised = "none"
              /\ ComputeRoomRisk(r, {})) =>
                /\ last'.raised = "none"
                /\ last'.risk_score = last.risk_score
                /\ room_risk_score' = room_risk_score
       /\ \A p \in Properties :
             (/\ last.op = "compute_property_risk" /\ last.property_id = p
              /\ last.raised = "none"
              /\ ComputePropertyRisk(p, {})) =>
                /\ last'.raised = "none"
                /\ last'.risk_score = last.risk_score
                /\ last'.risk_category = last.risk_category
                /\ property_risk' = property_risk
                /\ room_risk_score' = room_risk_score]_vars

\* compute_property_risk has returned a score above 0 for p1 and had no room
\* score left to fill in: all of them were persisted before the call.
PropertyRiskRecomputedFromStoredScores ==
    /\ last.op = "compute_property_risk" /\ last.property_id = "p1"
    /\ last.raised = "none" /\ last.computed = {}
    /\ last.risk_score > 0
    /\ property_risk["p1"].risk_score = <<last.risk_score>>

(***************************************************************************)
(* C22.  Concurrent reclassifications of the same finding are serialized:  *)
(* under every interleaving of two reclassifications, once both are        *)
(* complete the current tags of the finding are exactly the new tags of    *)
(* one of the two, never a mixture of both; and at every moment each       *)
(* current tag of a finding has its row in the history of the finding.     *)
(***************************************************************************)
CategoriesOf(rows) == [i \in 1..Len(rows) |-> rows[i].defect_category]

ConcurrentReclassificationsSerialized ==
    /\ \A f \in Findings :
          (\A c \in Connections :
              reclassifying[c].op = "complete" /\ reclassifying[c].finding_id = f) =>
             \E c \in Connections :
                CategoriesOf(defect_tags[f]) = reclassifying[c].new_categories
    /\ \A f \in Findings : \A i \in 1..Len(defect_tags[f]) :
          \E j \in 1..Len(classification_history[f]) :
             /\ classification_history[f][j].defect_category = defect_tags[f][i].defect_category
             /\ classification_history[f][j].confidence_score = defect_tags[f][i].confidence_score

(***************************************************************************)
(* C23.  Classification and risk computation touch disjoint derived        *)
(* state: classify_text_finding, classify_image_finding and                *)
(* batch_classify_findings never change a room's risk_score or a           *)
(* property's risk_score, risk_category or summary_text;                   *)
(* compute_room_risk and compute_property_risk never change defect_tags,   *)
(* classification_history, processing_status or summary_text;              *)
(* get_risk_calculation_details and get_defect_tags change nothing.        *)
(***************************************************************************)
OperationsKeepTheirFrame ==
    [][/\ last'.op \in {"classify_text_finding", "classify_image_finding",
                        "batch_classify_findings"} =>
             UNCHANGED <<room_risk_score, property_risk, summary_text>>
       /\ last'.op \in {"compute_room_risk", "compute_property_risk"} =>
             UNCHANGED <<defect_tags, classification_history, processing_status,
                         summary_text>>
       /\ last'.op \in {"get_risk_calculation_details", "get_defect_tags"} =>
             /\ UNCHANGED <<defect_tags, classification_history, processing_status,
                            room_risk_score, property_risk, summary_text>>
             /\ error_log' = <<>>]_vars

\* A classification has stored a tag of a finding in a room whose score is
\* persisted.
ClassifiedAfterRoomRisk ==
    /\ last.op \in {"classify_text_finding", "batch_classify_findings"}
    /\ last.raised = "none"
    /\ defect_tags["f1"] # <<>>
    /\ room_risk_score["r1"] # <<>>

(***************************************************************************)
(* C24.  batch_classify_findings processes the ids strictly in the order   *)
(* given, one at a time: every write for the i-th id (tags, history,       *)
(* status, error log) happens before the lookup and any write for the      *)
(* (i+1)-th id.  A batch of two ids therefore leaves what the batch of     *)
(* the first id followed by the batch of the second id leaves, with the    *)
(* error-log rows of the first id before those of the second.              *)
(***************************************************************************)
\* The batch of the first item, then (unless it raised) that of the second.
OneAfterTheOther(items) ==
    LET first == batch_classify_findings(DB, <<items[1]>>)
        second == batch_classify_findings(first.db, <<items[2]>>)
    IN  IF first.raised # "none" THEN first
        ELSE [db |-> second.db, raised |-> second.raised,
              results |-> second.results @@ first.results]

BatchProcessesInOrder ==
    [][(last'.op = "batch_classify_findings" /\ Len(last'.finding_ids) = 2) =>
          \A items \in {b \in CoreBatches :
                            /\ Len(b) = 2
                            /\ <<b[1].finding_id, b[2].finding_id>> = last'.finding_ids} :
             BatchClassify(items) =>
                LET r == OneAfterTheOther(items)
                IN  /\ defect_tags' = r.db.defect_tags
                    /\ classification_history' = r.db.classification_history
                    /\ processing_status' = r.db.processing_status
                    /\ error_log' = r.db.error_log
                    /\ last'.raised = r.raised
                    /\ last'.results = r.results]_vars

\* A batch of a missing id and then an image that cannot be read has logged
\* the missing id first.
BatchLoggedBothItemsInOrder ==
    /\ last.op = "batch_classify_findings"
    /\ last.finding_ids = <<"f9", "f2">>
    /\ last.raised = "none"
    /\ Len(error_log) = 3
    /\ error_log[1] = [error_type |-> "finding_not_found", entity_type |-> "finding",
                       entity_id |-> "f9"]
    /\ error_log[3] = [error_type |-> "batch_classification_error",
                       entity_type |-> "finding", entity_id |-> "f2"]

(***************************************************************************)
(* C25.  The text keyword fallback resolves ties by a fixed priority: for  *)
(* every combination of keyword groups present in the note it gives        *)
(* 'exposed wiring' if an exposed-wiring keyword is present, else          *)
(* 'damp wall' if a damp/moisture keyword is present, else 'mold', else    *)
(* 'water leak', else 'crack', else 'none'; the same note gives the same   *)
(* category in every state of the store.                                   *)
(***************************************************************************)
\* The keyword groups, the group of the highest priority first.
TextKeywordGroups ==
    <<[category |-> "exposed wiring", words |-> {"exposed wire", "live wire"}],
      [category |-> "damp wall", words |-> {"damp", "humid"}],
      [category |-> "mold", words |-> {"mold", "fungus"}],
      [category |-> "water leak", words |-> {"leak", "drip"}],
      [category |-> "crack", words |-> {"crack", "fracture"}]>>

CategoryByPriority(contains) ==
    LET present == {i \in 1..Len(TextKeywordGroups) :
                       TextKeywordGroups[i].words \cap contains # {}}
    IN  IF present = {} THEN "none"
        ELSE TextKeywordGroups[CHOOSE i \in present : \A j \in present : i <= j].category

TextFallbackFollowsPriority ==
    [][last'.op = "classify_text_finding" =>
          \A note_text \in KeywordNotes, cortex \in {Nothing, Error(FALSE)} :
             ClassifyText("f1", note_text, cortex, {}) =>
                /\ last'.raised = "none"
                /\ last'.tags = <<CategoryByPriority(note_text.contains)>>
                /\ defect_tags'["f1"][Len(defect_tags'["f1"])].defect_category =
                      CategoryByPriority(note_text.contains)]_vars

\* The fallback has given 'damp wall' and then 'mold': a note with a mold
\* keyword gave 'mold' only without a damp keyword.
FallbackGaveDampThenMold ==
    /\ last.op = "classify_text_finding" /\ last.raised = "none"
    /\ CategoriesOf(defect_tags["f1"]) = <<"damp wall", "mold">>
    /\ \A i \in 1..2 : defect_tags["f1"][i].confidence_score = 50

(***************************************************************************)
(* C26.  Every tag stored by classify_text_finding or                      *)
(* classify_image_finding has confidence 0.85 when the classifier call     *)
(* succeeded with a usable label, 0.5 when the keyword fallback produced   *)
(* it (empty classifier output or service error), and 0.0 exactly when a   *)
(* single 'none' label was substituted because no returned label survived  *)
(* validation; every stored confidence lies in [0, 1].                     *)
(***************************************************************************)
\* The labels of a classifier answer that are valid for the type.
UsableLabels(op, cortex) ==
    IF cortex.kind = "label" \/ (cortex.kind = "list" /\ op = "classify_image_finding")
    THEN {cortex.labels[i] : i \in 1..Len(cortex.labels)} \cap ValidCategoriesOf(op)
    ELSE {}

\* The confidence the claim gives to the tags of a call, in hundredths.
ConfidenceOf(op, cortex) ==
    IF cortex.kind \in {"empty", "error"} \/ cortex.labels = <<>> THEN 50
    ELSE IF UsableLabels(op, cortex) # {} THEN 85
    ELSE 0

StoredConfidence(f, op, cortex) ==
    LET new == (Len(defect_tags[f]) + 1)..Len(defect_tags'[f])
    IN  /\ \A i \in new :
              /\ defect_tags'[f][i].confidence_score = ConfidenceOf(op, cortex)
              /\ defect_tags'[f][i].confidence_score \in 0..100
        /\ (new # {} /\ ConfidenceOf(op, cortex) = 0) =>
              /\ Cardinality(new) = 1
              /\ \A i \in new : defect_tags'[f][i].defect_category = "none"
        /\ (new # {} /\ ConfidenceOf(op, cortex) # 0) =>
              \A i \in new : defect_tags'[f][i].defect_category \in ValidCategoriesOf(op)

ConfidenceFollowsSource ==
    [][(/\ last'.op \in {"classify_text_finding", "classify_image_finding"}
        /\ last'.finding_id \in Findings
        /\ Len(defect_tags'[last'.finding_id]) > Len(defect_tags[last'.finding_id])) =>
          LET f == last'.finding_id
          IN  /\ last'.op = "classify_text_finding" =>
                    \A in \in TextInputs :
                       ClassifyText(f, FindingRow[f].note_text, in.cortex, in.faults) =>
                          StoredConfidence(f, "classify_text_finding", in.cortex)
              /\ last'.op = "classify_image_finding" =>
                    \A in \in ImageInputs :
                       ClassifyImage(f, FindingRow[f].image_stage_path, in.cortex, in.faults) =>
                          StoredConfidence(f, "classify_image_finding", in.cortex)]_vars

\* A finding holds a tag of each source: a label of the classifier, a
\* keyword of the note, and the 'none' that replaced an unknown label.
TagsOfEveryConfidence ==
    /\ last.op = "classify_text_finding" /\ last.raised = "none"
    /\ {defect_tags["f1"][i].confidence_score : i \in 1..Len(defect_tags["f1"])} = {0, 50, 85}
    /\ \A i \in 1..Len(defect_tags["f1"]) :
          defect_tags["f1"][i].confidence_score = 0 =>
             defect_tags["f1"][i].defect_category = "none"

(***************************************************************************)
(* C27.  After classify_image_finding on a finding with no prior tags has  *)
(* returned the tag list T, get_defect_tags of the finding gives exactly   *)
(* |T| rows whose categories are those of T, and when |T| > 1 the stored   *)
(* categories contain no duplicates, for any classifier output, a label    *)
(* list that repeats a label included.                                     *)
(***************************************************************************)
NoDuplicates(s) == \A i, j \in 1..Len(s) : s[i] = s[j] => i = j

StoredImageTagsAreDistinct ==
    [][\A f \in Findings :
          (/\ calls = 1
           /\ last.op = "classify_image_finding" /\ last.finding_id = f
           /\ last.raised = "none"
           /\ GetDefectTags(f)) =>
             /\ Len(last'.rows) = Len(last.tags)
             /\ CategoriesOf(last'.rows) = last.tags
             /\ Len(last.tags) > 1 => NoDuplicates(CategoriesOf(last'.rows))]_vars

(***************************************************************************)
(* C28.  After batch_classify_findings has returned, every input finding   *)
(* id that is absent from the result map has at least one error_log row    *)
(* naming it ('finding_not_found', 'batch_classification_error' or a more  *)
(* specific type), the ids included whose finding row exists but has       *)
(* empty content, a mismatching content field or an unrecognised type.     *)
(***************************************************************************)
BatchLogsEveryAbsentId ==
    [][(last'.op = "batch_classify_findings" /\ last'.raised = "none") =>
          \A i \in 1..Len(last'.finding_ids) :
             last'.finding_ids[i] \notin DOMAIN last'.results =>
                \E j \in 1..Len(error_log') :
                   error_log'[j].entity_id = last'.finding_ids[i]]_vars

(***************************************************************************)
(* C29.  No operation of AIClassification removes defect_tags rows: each   *)
(* classify_text_finding or classify_image_finding call that returns adds  *)
(* its tags to the tags already stored for the finding, so classifying a   *)
(* finding again (or listing its id twice in one batch) leaves as many     *)
(* more current tags, and the score compute_room_risk returns for the      *)
(* room grows by the severity weights of the tags added by every re-run.   *)
(***************************************************************************)
\* The store after the step.
DBNext ==
    [DB EXCEPT !.defect_tags = defect_tags',
               !.classification_history = classification_history',
               !.processing_status = processing_status',
               !.room_risk_score = room_risk_score',
               !.property_risk = property_risk',
               !.summary_text = summary_text']

\* The rows of a finding that the step appended.
AddedRows(f) == SubSeq(defect_tags'[f], Len(defect_tags[f]) + 1, Len(defect_tags'[f]))

RECURSIVE AddedWeight(_)
AddedWeight(findings) ==
    IF findings = {} THEN 0
    ELSE LET f == CHOOSE x \in findings : TRUE
         IN  SumWeights(AddedRows(f)) + AddedWeight(findings \ {f})

BatchResultMatchesStatus ==
    [][(last'.op = "batch_classify_findings" /\ last'.raised = "none") =>
          \A f \in Findings :
             processing_status[f] = "pending" =>
                (f \in DOMAIN last'.results <=> processing_status'[f] = "processed")]_vars

====
